---------------------------- MODULE Spec2Model ----------------------------
(***************************************************************************)
(* Galaxy simulator (src/main.cc): one coordinator (the frame loop of      *)
(* main) and NUM_WORKER_THREADS workers (thread_fn) that share the vector  *)
(* `stars` and meet at one pthread barrier.                                *)
(*                                                                         *)
(* Numbers.  The program computes in float; the model computes on the      *)
(* integers, every division truncating toward zero, and carries "not a     *)
(* number" as explicit flags (a float that is NaN compares unequal to      *)
(* itself, and every comparison with it is false).                         *)
(*                                                                         *)
(* Granularity.  One action is one iteration of a loop of the source (its  *)
(* header test and its body) or one barrier arrival.  Threads interleave   *)
(* at that granularity.  An index at or beyond stars.size() addresses      *)
(* storage past the live elements: a write there does not change the       *)
(* collection.                                                             *)
(***************************************************************************)
EXTENDS Integers, Sequences, FiniteSets, TLC

(***************************************************************************)
(* Bounds of the model.  The source runs 4 workers and spawns 500..999     *)
(* stars per click; the model is parametric in these and is checked at a   *)
(* reduced scale.                                                          *)
(***************************************************************************)
NUM_WORKER_THREADS == 2
MaxStars == 3
MaxFrames == 2
SpawnMod == 2
SpawnBase == 1

(* Program constants. *)
G == 1
DT_NUM == 1
DT_DEN == 25
SpawnMass == 10

Workers == 0 .. (NUM_WORKER_THREADS - 1)

(***************************************************************************)
(* Integer helpers.                                                        *)
(***************************************************************************)
Abs(a) == IF a < 0 THEN -a ELSE a

TDiv(a, b) == IF (a < 0) = (b < 0) THEN Abs(a) \div Abs(b) ELSE -(Abs(a) \div Abs(b))

RECURSIVE ISqrtFrom(_, _)
ISqrtFrom(n, r) == IF (r + 1) * (r + 1) > n THEN r ELSE ISqrtFrom(n, r + 1)

ISqrt(n) == ISqrtFrom(n, 0)

(***************************************************************************)
(* vec2d: a pair <<x, y>>.                                                 *)
(***************************************************************************)
VAdd(a, b) == <<a[1] + b[1], a[2] + b[2]>>
VSub(a, b) == <<a[1] - b[1], a[2] - b[2]>>
VScale(a, k) == <<a[1] * k, a[2] * k>>
VDiv(a, k) == <<TDiv(a[1], k), TDiv(a[2], k)>>
VNeg(a) == <<-a[1], -a[2]>>
Zero2 == <<0, 0>>
NoNaN == <<FALSE, FALSE>>
AllNaN == <<TRUE, TRUE>>

(* The squared magnitude, which the integer model compares exactly. *)
Mag2(a) == a[1] * a[1] + a[2] * a[2]

Magnitude(a) == ISqrt(Mag2(a))

(***************************************************************************)
(* star: mass, position, velocity, accumulated force.  nan[k] says that    *)
(* coordinate k of the position is NaN; fnan that the accumulated force    *)
(* is NaN; minf that the mass is +infinity (a float division by zero), in  *)
(* which case the field mass holds 0.                                      *)
(***************************************************************************)
MkStar(m, p, v) ==
    [mass |-> m, pos |-> p, vel |-> v, force |-> Zero2, nan |-> NoNaN, fnan |-> FALSE,
     minf |-> FALSE]

IsNaNPos(s) == s.nan[1] \/ s.nan[2]

Radius(s) == s.mass \div 5

(* star.hh: radius, addForce, update and merge follow sections 3 and 4.1   *)
(* of the specification.                                                   *)

(* addForce(f): accumulate f; a NaN contribution makes the sum NaN. *)
AddForce(s, f) ==
    IF f.nan \/ s.fnan
    THEN [s EXCEPT !.force = Zero2, !.fnan = TRUE]
    ELSE [s EXCEPT !.force = VAdd(s.force, f.v)]

(* update(dt): velocity += force / mass * dt; position += velocity * dt;   *)
(* force = 0.  NaN in the force or in the state makes position NaN.        *)
UpdateStar(s) ==
    IF s.fnan \/ IsNaNPos(s)
    THEN [s EXCEPT !.pos = Zero2, !.vel = Zero2, !.force = Zero2,
                   !.nan = AllNaN, !.fnan = FALSE]
    ELSE LET v == VAdd(s.vel, VDiv(VScale(s.force, DT_NUM), s.mass * DT_DEN))
         IN  [s EXCEPT !.vel = v,
                       !.pos = VAdd(s.pos, VDiv(VScale(v, DT_NUM), DT_DEN)),
                       !.force = Zero2]

(* a.merge(b): mass adds, velocity is the momentum-weighted mean, position *)
(* is that of the heavier star (a on a tie).                               *)
MergeStars(a, b) ==
    MkStar(a.mass + b.mass,
           IF b.mass > a.mass THEN b.pos ELSE a.pos,
           VDiv(VAdd(VScale(a.vel, a.mass), VScale(b.vel, b.mass)), a.mass + b.mass))

(***************************************************************************)
(* The vector `stars`, indexed from 0 as in the source.                    *)
(***************************************************************************)
At(s, i) == s[i + 1]

(* Off by one: erases the element after the one asked for. *)
EraseAtNext(s, i) == SubSeq(s, 1, i + 1) \o SubSeq(s, i + 3, Len(s))

EraseAt(s, i) == SubSeq(s, 1, i) \o SubSeq(s, i + 2, Len(s))

(* Off by one: stores into the element after the one asked for. *)
SetAtNext(s, i, x) == [s EXCEPT ![i + 2] = x]

SetAt(s, i, x) == [s EXCEPT ![i + 1] = x]

(* diff.magnitude() < r1 + r2; false when a position is NaN. *)
Overlap(a, b) ==
    /\ ~IsNaNPos(a)
    /\ ~IsNaNPos(b)
    /\ Mag2(VSub(a.pos, b.pos)) < (Radius(a) + Radius(b)) * (Radius(a) + Radius(b))

(* Without the minus sign: the force pushes a away from b. *)
ForceOnRepulsive(a, b) ==
    LET diff == VSub(a.pos, b.pos)
        dist == Magnitude(diff)
    IN  IF IsNaNPos(a) \/ IsNaNPos(b) \/ dist = 0
        THEN [nan |-> TRUE, v |-> Zero2]
        ELSE [nan |-> FALSE,
              v |-> VDiv(VScale(diff, G * a.mass * b.mass), dist * dist * dist)]

(* The force on star a from star b: -normalized(diff) * G * m1 * m2 /      *)
(* dist^2.  At distance 0 the normalisation is 0/0.                        *)
ForceOn(a, b) ==
    LET diff == VSub(a.pos, b.pos)
        dist == Magnitude(diff)
    IN  IF IsNaNPos(a) \/ IsNaNPos(b) \/ dist = 0
        THEN [nan |-> TRUE, v |-> Zero2]
        ELSE [nan |-> FALSE,
              v |-> VDiv(VScale(VNeg(diff), G * a.mass * b.mass), dist * dist * dist)]

(* Without the i--: the element shifted into place is skipped. *)
AfterEraseNoDecrement(i) == i + 1

(* The purge's index after an erase: i-- and then the loop's i++. *)
AfterErase(i) == (i - 1) + 1

(* Without the j--: the entry shifted into place is never compared. *)
MergeAfterEraseSkip(j) == j + 1

(* The merge loop's index after an erase: j-- and then the loop's j++. *)
MergeAfterErase(j) == (j - 1) + 1

(* The outer merge loop left one index early. *)
OuterLoopEndsEarly(i, n) == ~(i + 1 < n)

(* The outer merge loop's test fails: !(i < stars.size()). *)
OuterLoopEnds(i, n) == ~(i < n)

(* The purge's test: x != x || y != y. *)
PurgeTest(s) == s.nan[1] \/ s.nan[2]

(* Which worker id owns index i: i % NUM_WORKER_THREADS == num. *)
Owns(n, i) == i % NUM_WORKER_THREADS = n

(* A barrier that waits for one thread more than there are. *)
BarrierCountOneTooMany == NUM_WORKER_THREADS + 2

(* A barrier that does not count the coordinator. *)
BarrierCountWorkersOnly == NUM_WORKER_THREADS

(* pthread_barrier_init(&barrier, NULL, NUM_WORKER_THREADS + 1). *)
BarrierCount == NUM_WORKER_THREADS + 1

(***************************************************************************)
(* addRandomGalaxy (lines 234-269).  The random draws are inputs: the      *)
(* angle as the pair <<sin, cos>>, the point radius, the speed factor.     *)
(***************************************************************************)
Angles == {<<1, 0>>, <<-1, 0>>}
PointRadii == {4}
SpeedFactors == {1}
StarDraws == Angles \X PointRadii \X SpeedFactors
RandValues == 0 .. (SpawnMod - 1)

(* Without the + 500. *)
SpawnCountNoBase(r) == r % SpawnMod

SpawnCount(r) == (r % SpawnMod) + SpawnBase

SpawnDirection(r) == IF r % 2 = 0 THEN -1 ELSE 1

(* 10 / sqrt(pos.magnitude()): at magnitude 0 the float division gives     *)
(* +infinity.                                                              *)
SpawnStar(center, direction, d) ==
    LET angle == d[1]
        point_radius == d[2]
        pos == <<point_radius * angle[1], point_radius * angle[2]>>
        vel == VScale(<<-angle[2], angle[1]>>, ISqrt(point_radius) * direction * d[3])
    IN  IF ISqrt(Magnitude(pos)) = 0
        THEN [MkStar(0, VAdd(pos, center), vel) EXCEPT !.minf = TRUE]
        ELSE MkStar(SpawnMass \div ISqrt(Magnitude(pos)), VAdd(pos, center), vel)

(* The galaxies one call can append, its per-star draws taken from D. *)
Galaxies(center, D) ==
    UNION { UNION { { [k \in 1 .. SpawnCount(r) |-> SpawnStar(center, SpawnDirection(r2), ds[k])] :
                      ds \in [1 .. SpawnCount(r) -> D] } :
                    r2 \in 0 .. 1 } :
            r \in RandValues }

(* mouse_up after the mouse branch (lines 96-107). *)
MouseUpNotCleared(pressed, up) == IF pressed THEN up ELSE TRUE

MouseUpAfter(pressed, up) == IF pressed THEN (IF up THEN FALSE ELSE up) ELSE TRUE

(* The offset changes of the key branches (lines 113-134). *)
KeyDXReversed(keys) == (IF "RIGHT" \in keys THEN 1 ELSE 0) - (IF "LEFT" \in keys THEN 1 ELSE 0)

KeyDX(keys) == (IF "LEFT" \in keys THEN 1 ELSE 0) - (IF "RIGHT" \in keys THEN 1 ELSE 0)

KeyDY(keys) == (IF "UP" \in keys THEN 1 ELSE 0) - (IF "DOWN" \in keys THEN 1 ELSE 0)

(* Inputs of one frame. *)
MousePoints == {<<0, 0>>}
KeySets == {{}, {"LEFT", "UP"}}

NoInput == [pressed |-> FALSE, prev |-> FALSE, mouse |-> <<0, 0>>, keys |-> {}, called |-> FALSE]

VARIABLES
    stars,      \* vector<star> stars
    cpc,        \* where the coordinator (main) is
    ci, cj,     \* the coordinator's loop indices i, j (purge, merge)
    mi,         \* main's thread-creation loop variable i (line 77)
    inScope,    \* whether that variable is still alive
    running,    \* main's running flag
    mouse_up,   \* main's mouse_up flag
    x_offset, y_offset,
    frame,      \* frames rendered so far
    wpc,        \* where each worker is
    num,        \* each worker's id, read through threadnum
    wi, wj,     \* each worker's loop indices i, j
    snap,       \* history: the collection when the current phase began
    nmerge,     \* history: merges done by the current merge pass
    passes,     \* history: passes each worker finished since the last render
    updates,    \* history: update(DT) calls each worker made since the last render
    busy,       \* history: the worker is inside the round the coordinator opened
    input,      \* history: what the current frame read (button, mouse, keys) and
                \*          whether it called addRandomGalaxy; prev is the button
                \*          state the frame before read
    seen,       \* history: the indices j compared against stars[i] in the current
                \*          inner merge loop since they were last shifted
    added       \* history: per worker, the indices j whose force it has added to
                \*          its current star

vars == <<stars, cpc, ci, cj, mi, inScope, running, mouse_up, x_offset, y_offset,
          frame, wpc, num, wi, wj, snap, nmerge, passes, updates, busy, input, seen, added>>

coordVars == <<cpc, ci, cj, mi, inScope, running, mouse_up, x_offset, y_offset, frame>>

Init ==
    /\ stars = <<>>
    /\ cpc = "create"
    /\ ci = 0
    /\ cj = 0
    /\ mi = 0
    /\ inScope = TRUE
    /\ running = TRUE
    /\ mouse_up = TRUE
    /\ x_offset = 0
    /\ y_offset = 0
    /\ frame = 0
    /\ wpc = [t \in Workers |-> "unborn"]
    /\ num = [t \in Workers |-> -1]
    /\ wi = [t \in Workers |-> 0]
    /\ wj = [t \in Workers |-> 0]
    /\ snap = <<>>
    /\ nmerge = 0
    /\ passes = [t \in Workers |-> 0]
    /\ updates = [t \in Workers |-> 0]
    /\ busy = [t \in Workers |-> FALSE]
    /\ input = NoInput
    /\ seen = {}
    /\ added = [t \in Workers |-> <<>>]

(***************************************************************************)
(* The barrier.  A thread that arrives as the BarrierCount-th releases     *)
(* every waiting thread and goes on itself; otherwise it blocks.           *)
(***************************************************************************)
CoordWaiting == cpc \in {"wait1", "wait2"}

Waiting == {t \in Workers : wpc[t] = "wait"}

Arrived == Cardinality(Waiting) + (IF CoordWaiting THEN 1 ELSE 0)

(* The workers in R leave the barrier: each starts a pass at i = 0. *)
ReleaseWorkers(R, opens, b) ==
    /\ wpc' = [t \in Workers |-> IF t \in R THEN "loop" ELSE wpc[t]]
    /\ wi' = [t \in Workers |-> IF t \in R THEN 0 ELSE wi[t]]
    /\ busy' = [t \in Workers |-> IF t \in R /\ opens THEN TRUE ELSE b[t]]

(* Worker t calls pthread_barrier_wait; b is the busy history to keep. *)
WorkerArrive(t, b) ==
    IF Arrived + 1 = BarrierCount
    THEN /\ ReleaseWorkers(Waiting \cup {t}, cpc = "wait1", b)
         /\ cpc' = IF cpc = "wait1" THEN "bar2" ELSE IF cpc = "wait2" THEN "render" ELSE cpc
         /\ snap' = IF cpc = "wait1" THEN stars ELSE snap
    ELSE /\ wpc' = [wpc EXCEPT ![t] = "wait"]
         /\ busy' = b
         /\ UNCHANGED <<wi, cpc, snap>>

(* The coordinator calls pthread_barrier_wait. *)
CoordArrive(next, blocked, opens) ==
    IF Arrived + 1 = BarrierCount
    THEN /\ ReleaseWorkers(Waiting, opens, busy)
         /\ cpc' = next
         /\ snap' = IF opens THEN stars ELSE snap
    ELSE /\ cpc' = blocked
         /\ UNCHANGED <<wpc, wi, busy, snap>>

(***************************************************************************)
(* main, lines 75-79: create the workers, each handed &i.                  *)
(***************************************************************************)
CreateThread ==
    /\ cpc = "create"
    /\ mi < NUM_WORKER_THREADS
    /\ wpc' = [wpc EXCEPT ![mi] = "start"]
    /\ cpc' = "incr"
    /\ UNCHANGED <<stars, ci, cj, mi, inScope, running, mouse_up, x_offset, y_offset,
                   frame, num, wi, wj, snap, nmerge, passes, updates, busy, input, seen, added>>

(* i++ and the loop test; after the last round the variable's life ends. *)
IncrI ==
    /\ cpc = "incr"
    /\ mi' = mi + 1
    /\ IF mi + 1 < NUM_WORKER_THREADS
       THEN cpc' = "create" /\ inScope' = inScope
       ELSE cpc' = "top" /\ inScope' = FALSE
    /\ UNCHANGED <<stars, ci, cj, running, mouse_up, x_offset, y_offset,
                   frame, wpc, num, wi, wj, snap, nmerge, passes, updates, busy, input, seen, added>>

(***************************************************************************)
(* thread_fn, line 194 and the first barrier wait.  The worker reads its   *)
(* id through the pointer to main's loop variable: the value that variable *)
(* holds at that moment, or, once its life has ended, whatever the stack   *)
(* slot holds (a value outside 0..NUM_WORKER_THREADS-1 owns no index, and  *)
(* NUM_WORKER_THREADS stands for all of them).                             *)
(***************************************************************************)
ThreadNumValues == IF inScope THEN {mi} ELSE 0 .. NUM_WORKER_THREADS

WorkerStart(t) ==
    /\ wpc[t] = "start"
    /\ cpc # "exit"
    /\ \E v \in ThreadNumValues : num' = [num EXCEPT ![t] = v]
    /\ WorkerArrive(t, busy)
    /\ UNCHANGED <<stars, ci, cj, mi, inScope, running, mouse_up, x_offset, y_offset,
                   frame, wj, nmerge, passes, updates, input, seen, added>>

(***************************************************************************)
(* thread_fn, lines 200-229.                                               *)
(***************************************************************************)
(* One iteration of the outer loop: the header and the ownership test. *)
WorkerLoop(t) ==
    /\ wpc[t] = "loop"
    /\ cpc # "exit"
    /\ wi[t] < Len(stars)
    /\ IF Owns(num[t], wi[t])
       THEN /\ wpc' = [wpc EXCEPT ![t] = "force"]
            /\ wj' = [wj EXCEPT ![t] = 0]
            /\ added' = [added EXCEPT ![t] = <<>>]
            /\ wi' = wi
       ELSE /\ wi' = [wi EXCEPT ![t] = wi[t] + 1]
            /\ UNCHANGED <<wpc, wj, added>>
    /\ UNCHANGED <<stars, coordVars, num, snap, nmerge, passes, updates, busy, input, seen>>

(* The outer loop ends: back to pthread_barrier_wait (line 198). *)
WorkerPassEnd(t) ==
    /\ wpc[t] = "loop"
    /\ cpc # "exit"
    /\ wi[t] >= Len(stars)
    /\ passes' = [passes EXCEPT ![t] = passes[t] + 1]
    /\ updates' = updates
    /\ WorkerArrive(t, [busy EXCEPT ![t] = FALSE])
    /\ UNCHANGED <<stars, ci, cj, mi, inScope, running, mouse_up, x_offset, y_offset,
                   frame, num, wj, nmerge, input, seen, added>>

(* One iteration of the inner loop: skip j == i, else addForce. *)
WorkerForce(t) ==
    /\ wpc[t] = "force"
    /\ cpc # "exit"
    /\ wj[t] < Len(stars)
    /\ stars' = IF wj[t] = wi[t] \/ wi[t] >= Len(stars)
                THEN stars
                ELSE SetAt(stars, wi[t],
                           AddForce(At(stars, wi[t]),
                                    ForceOn(At(stars, wi[t]), At(stars, wj[t]))))
    /\ added' = IF wj[t] = wi[t] THEN added ELSE [added EXCEPT ![t] = Append(added[t], wj[t])]
    /\ wj' = [wj EXCEPT ![t] = wj[t] + 1]
    /\ UNCHANGED <<coordVars, wpc, num, wi, snap, nmerge, passes, updates, busy, input, seen>>

(* The inner loop ends: stars[i].update(DT), then i++. *)
WorkerUpdate(t) ==
    /\ wpc[t] = "force"
    /\ cpc # "exit"
    /\ wj[t] >= Len(stars)
    /\ stars' = IF wi[t] >= Len(stars)
                THEN stars
                ELSE SetAt(stars, wi[t], UpdateStar(At(stars, wi[t])))
    /\ updates' = [updates EXCEPT ![t] = updates[t] + (IF wi[t] < Len(stars) THEN 1 ELSE 0)]
    /\ wi' = [wi EXCEPT ![t] = wi[t] + 1]
    /\ wpc' = [wpc EXCEPT ![t] = "loop"]
    /\ UNCHANGED <<coordVars, num, wj, snap, nmerge, passes, busy, input, seen, added>>

(***************************************************************************)
(* main, lines 83-134: the loop test, the events, the mouse and the keys   *)
(* of one frame.  A press with mouse_up set appends one galaxy, whose       *)
(* per-star random draws come from D.                                      *)
(***************************************************************************)
FrameStart(quit, pressed, mouse, keys, D) ==
    /\ cpc = "top"
    /\ running
    /\ frame < MaxFrames
    /\ running' = ~quit
    /\ IF pressed /\ mouse_up
       THEN \E g \in Galaxies(<<mouse[1] - x_offset, mouse[2] - y_offset>>, D) :
                /\ Len(stars) + Len(g) <= MaxStars
                /\ stars' = stars \o g
       ELSE stars' = stars
    /\ mouse_up' = MouseUpAfter(pressed, mouse_up)
    /\ y_offset' = y_offset + KeyDY(keys)
    /\ x_offset' = x_offset + KeyDX(keys)
    /\ cpc' = "purge"
    /\ ci' = 0
    /\ snap' = stars'
    /\ input' = [pressed |-> pressed, prev |-> input.pressed, mouse |-> mouse,
                 keys |-> keys, called |-> pressed /\ mouse_up]
    /\ UNCHANGED <<cj, mi, inScope, frame, wpc, num, wi, wj, nmerge, passes, updates, busy, seen, added>>

(* while(running) fails: main returns and the process ends. *)
Exit ==
    /\ cpc = "top"
    /\ ~running
    /\ cpc' = "exit"
    /\ UNCHANGED <<stars, ci, cj, mi, inScope, running, mouse_up, x_offset, y_offset,
                   frame, wpc, num, wi, wj, snap, nmerge, passes, updates, busy, input, seen, added>>

(***************************************************************************)
(* main, lines 136-145: one iteration of the purge loop.  After an erase   *)
(* i-- and the loop's i++ leave i where it was.                            *)
(***************************************************************************)
PurgeStep ==
    /\ cpc = "purge"
    /\ ci < Len(stars)
    /\ IF PurgeTest(At(stars, ci))
       THEN stars' = EraseAt(stars, ci) /\ ci' = AfterErase(ci)
       ELSE stars' = stars /\ ci' = ci + 1
    /\ UNCHANGED <<cpc, cj, mi, inScope, running, mouse_up, x_offset, y_offset,
                   frame, wpc, num, wi, wj, snap, nmerge, passes, updates, busy, input, seen, added>>

(* The purge loop ends; updateStars is entered (line 148, 169-170). *)
PurgeDone ==
    /\ cpc = "purge"
    /\ ci >= Len(stars)
    /\ cpc' = "merge"
    /\ ci' = 0
    /\ cj' = 1
    /\ snap' = stars
    /\ nmerge' = 0
    /\ seen' = {}
    /\ UNCHANGED <<stars, mi, inScope, running, mouse_up, x_offset, y_offset,
                   frame, wpc, num, wi, wj, passes, updates, busy, input, added>>

(***************************************************************************)
(* updateStars, lines 169-187: one iteration of the inner merge loop.      *)
(* After a merge j-- and the loop's j++ leave j where it was.              *)
(***************************************************************************)
MergeStep ==
    /\ cpc = "merge"
    /\ ci < Len(stars)
    /\ cj < Len(stars)
    /\ IF Overlap(At(stars, ci), At(stars, cj))
       THEN /\ stars' = EraseAt(SetAt(stars, ci, MergeStars(At(stars, ci), At(stars, cj))), cj)
            /\ nmerge' = nmerge + 1
            /\ cj' = MergeAfterErase(cj)
            /\ seen' = {k \in seen : k < cj}
       ELSE /\ cj' = cj + 1
            /\ seen' = seen \cup {cj}
            /\ UNCHANGED <<stars, nmerge>>
    /\ UNCHANGED <<cpc, ci, mi, inScope, running, mouse_up, x_offset, y_offset,
                   frame, wpc, num, wi, wj, snap, passes, updates, busy, input, added>>

(* The inner loop ends: i++, j = i + 1. *)
MergeNextI ==
    /\ cpc = "merge"
    /\ ci < Len(stars)
    /\ cj >= Len(stars)
    /\ ci' = ci + 1
    /\ cj' = ci + 2
    /\ seen' = {}
    /\ UNCHANGED <<stars, cpc, mi, inScope, running, mouse_up, x_offset, y_offset,
                   frame, wpc, num, wi, wj, snap, nmerge, passes, updates, busy, input, added>>

(* The outer loop ends: on to the first pthread_barrier_wait. *)
MergeDone ==
    /\ cpc = "merge"
    /\ OuterLoopEnds(ci, Len(stars))
    /\ cpc' = "bar1"
    /\ UNCHANGED <<stars, ci, cj, mi, inScope, running, mouse_up, x_offset, y_offset,
                   frame, wpc, num, wi, wj, snap, nmerge, passes, updates, busy, input, seen, added>>

(* updateStars, line 188. *)
Barrier1 ==
    /\ cpc = "bar1"
    /\ CoordArrive("bar2", "wait1", TRUE)
    /\ UNCHANGED <<stars, ci, cj, mi, inScope, running, mouse_up, x_offset, y_offset,
                   frame, num, wj, nmerge, passes, updates, input, seen, added>>

(* updateStars, line 189. *)
Barrier2 ==
    /\ cpc = "bar2"
    /\ CoordArrive("render", "wait2", FALSE)
    /\ UNCHANGED <<stars, ci, cj, mi, inScope, running, mouse_up, x_offset, y_offset,
                   frame, num, wj, nmerge, passes, updates, input, seen, added>>

(* main, lines 151-160: darken, draw every star, display. *)
Render ==
    /\ cpc = "render"
    /\ cpc' = "top"
    /\ frame' = frame + 1
    /\ passes' = [t \in Workers |-> 0]
    /\ updates' = [t \in Workers |-> 0]
    /\ UNCHANGED <<stars, ci, cj, mi, inScope, running, mouse_up, x_offset, y_offset,
                   wpc, num, wi, wj, snap, nmerge, busy, input, seen, added>>

Next ==
    \/ CreateThread
    \/ IncrI
    \/ \E t \in Workers : WorkerStart(t)
    \/ \E t \in Workers : WorkerLoop(t)
    \/ \E t \in Workers : WorkerPassEnd(t)
    \/ \E t \in Workers : WorkerForce(t)
    \/ \E t \in Workers : WorkerUpdate(t)
    \/ \E quit \in BOOLEAN, pressed \in BOOLEAN, mouse \in MousePoints, keys \in KeySets :
           FrameStart(quit, pressed, mouse, keys, StarDraws)
    \/ Exit
    \/ PurgeStep
    \/ PurgeDone
    \/ MergeStep
    \/ MergeNextI
    \/ MergeDone
    \/ Barrier1
    \/ Barrier2
    \/ Render

Spec == Init /\ [][Next]_vars

(***************************************************************************)
(* The whole program under fair scheduling: the operating system runs      *)
(* every thread that can take a step, main and each worker, again and      *)
(* again.  The frames read no keys and a click draws every star alike.     *)
(***************************************************************************)
LiveDraws == {<<(<<1, 0>>), 4, 1>>}

CoordNext ==
    \/ CreateThread
    \/ IncrI
    \/ \E quit \in BOOLEAN, pressed \in BOOLEAN, mouse \in MousePoints :
           FrameStart(quit, pressed, mouse, {}, LiveDraws)
    \/ Exit
    \/ PurgeStep
    \/ PurgeDone
    \/ MergeStep
    \/ MergeNextI
    \/ MergeDone
    \/ Barrier1
    \/ Barrier2
    \/ Render

WorkerNext(t) ==
    \/ WorkerStart(t)
    \/ WorkerLoop(t)
    \/ WorkerPassEnd(t)
    \/ WorkerForce(t)
    \/ WorkerUpdate(t)

NextLive == CoordNext \/ \E t \in Workers : WorkerNext(t)

Fair == WF_vars(CoordNext) /\ \A t \in Workers : WF_vars(WorkerNext(t))

SpecLive == Init /\ [][NextLive]_vars /\ Fair

(***************************************************************************)
(* The passes on their own.  Each specification below starts the program   *)
(* in a state where every worker has read its id and is parked at the      *)
(* barrier (or, for the round, has just been released), with a collection  *)
(* drawn from a small set, and runs one pass of the source on it.          *)
(***************************************************************************)
SeqsUpTo(S, n) == UNION {[1 .. k -> S] : k \in 0 .. n}

ParkedInitBusy(c, collection, workerPc, inRound) ==
    /\ stars = collection
    /\ cpc = c
    /\ ci = 0
    /\ cj = 1
    /\ mi = NUM_WORKER_THREADS
    /\ inScope = FALSE
    /\ running = TRUE
    /\ mouse_up = TRUE
    /\ x_offset = 0
    /\ y_offset = 0
    /\ frame = 0
    /\ wpc = [t \in Workers |-> workerPc]
    /\ num = [t \in Workers |-> t]
    /\ wi = [t \in Workers |-> 0]
    /\ wj = [t \in Workers |-> 0]
    /\ snap = collection
    /\ nmerge = 0
    /\ passes = [t \in Workers |-> 0]
    /\ updates = [t \in Workers |-> 0]
    /\ busy = [t \in Workers |-> inRound]
    /\ input = NoInput
    /\ seen = {}
    /\ added = [t \in Workers |-> <<>>]

ParkedInit(c, collection, workerPc) ==
    ParkedInitBusy(c, collection, workerPc, workerPc = "loop")

(* The merge pass of updateStars on any small collection. *)
MergePoints == {<<0, 0>>, <<2, 0>>, <<3, 0>>, <<0, 3>>}
MergeMasses == {5, 10}
MergeVels == {<<0, 0>>, <<25, -50>>}
MergeInputs == {MkStar(m, p, v) : m \in MergeMasses, p \in MergePoints, v \in MergeVels}

InitMerge == \E c \in SeqsUpTo(MergeInputs, MaxStars) : ParkedInit("merge", c, "wait")

NextMerge == MergeStep \/ MergeNextI \/ MergeDone

SpecMerge == InitMerge /\ [][NextMerge]_vars

(* The purge loop of main on any small collection. *)
PurgeInputs ==
    {[MkStar(5, p, <<0, 0>>) EXCEPT !.nan = n] :
        p \in {<<0, 0>>, <<4, 0>>}, n \in BOOLEAN \X BOOLEAN}

InitPurge == \E c \in SeqsUpTo(PurgeInputs, MaxStars) : ParkedInit("purge", c, "wait")

NextPurge == PurgeStep \/ PurgeDone

SpecPurge == InitPurge /\ [][NextPurge]_vars

(* One round: the workers, just released by the coordinator's first        *)
(* arrival, and the coordinator at its second.                             *)
RoundPoints == {<<0, 0>>, <<3, 0>>, <<0, 4>>}
RoundVels == {<<0, 0>>, <<25, 0>>}
RoundInputs == {MkStar(m, p, v) : m \in MergeMasses, p \in RoundPoints, v \in RoundVels}

NoOverlap(c) == \A a, b \in 1 .. Len(c) : a < b => ~Overlap(c[a], c[b])

InitRound ==
    \E c \in SeqsUpTo(RoundInputs, MaxStars) : NoOverlap(c) /\ ParkedInit("bar2", c, "loop")

NextRound ==
    \/ \E t \in Workers : WorkerLoop(t)
    \/ \E t \in Workers : WorkerPassEnd(t)
    \/ \E t \in Workers : WorkerForce(t)
    \/ \E t \in Workers : WorkerUpdate(t)
    \/ Barrier2

SpecRound == InitRound /\ [][NextRound]_vars

(* One round on stars at rest with masses 10 and 20 placed 5 apart along   *)
(* the axes.                                                               *)
ForcePoints == {<<0, 0>>, <<5, 0>>, <<0, -5>>}
ForceMasses == {10, 20}
ForceInputs == {MkStar(m, p, <<0, 0>>) : m \in ForceMasses, p \in ForcePoints}

InitForce == \E c \in SeqsUpTo(ForceInputs, MaxStars) : ParkedInit("bar2", c, "loop")

SpecForce == InitForce /\ [][NextRound]_vars

(* The merge pass up to the first barrier arrival, under fair scheduling,   *)
(* with the workers still in the pass the previous frame's second barrier  *)
(* wait released them into.                                                *)
RacePoints == {<<0, 0>>, <<0, 3>>}
RaceInputs == {MkStar(5, p, <<0, 0>>) : p \in RacePoints}

InitMergeLive ==
    \E c \in SeqsUpTo(RaceInputs, MaxStars) : ParkedInitBusy("merge", c, "loop", FALSE)

MergeNext == MergeStep \/ MergeNextI \/ MergeDone \/ Barrier1

WorkerPass(t) == WorkerLoop(t) \/ WorkerPassEnd(t) \/ WorkerForce(t) \/ WorkerUpdate(t)

NextMergeLive == MergeNext \/ \E t \in Workers : WorkerPass(t)

SpecMergeLive ==
    /\ InitMergeLive
    /\ [][NextMergeLive]_vars
    /\ WF_vars(MergeNext)
    /\ \A t \in Workers : WF_vars(WorkerPass(t))

(* The mouse and key handling of one frame, from any view offset and       *)
(* either value of mouse_up, with every combination of the four keys and   *)
(* with star draws that include the spawn centre itself (point radius 0).  *)
InputOffsets == {-1, 0, 1}
InputMouse == {<<0, 0>>, <<2, 3>>}
AllKeys == {"UP", "DOWN", "LEFT", "RIGHT"}
InputRadii == {0, 4}
InputDraws == Angles \X InputRadii \X SpeedFactors
InputCollections == {<<>>, <<MkStar(5, <<4, 0>>, <<0, 2>>)>>}

InitInput ==
    \E c \in InputCollections, xo \in InputOffsets, yo \in InputOffsets, up \in BOOLEAN :
        /\ up \/ c # <<>>
        /\ stars = c
        /\ cpc = "top"
        /\ ci = 0
        /\ cj = 1
        /\ mi = NUM_WORKER_THREADS
        /\ inScope = FALSE
        /\ running = TRUE
        /\ mouse_up = up
        /\ x_offset = xo
        /\ y_offset = yo
        /\ frame = 0
        /\ wpc = [t \in Workers |-> "wait"]
        /\ num = [t \in Workers |-> t]
        /\ wi = [t \in Workers |-> 0]
        /\ wj = [t \in Workers |-> 0]
        /\ snap = c
        /\ nmerge = 0
        /\ passes = [t \in Workers |-> 0]
        /\ updates = [t \in Workers |-> 0]
        /\ busy = [t \in Workers |-> FALSE]
        /\ input = [NoInput EXCEPT !.pressed = ~up]
        /\ seen = {}
        /\ added = [t \in Workers |-> <<>>]

NextInput ==
    \E quit \in BOOLEAN, pressed \in BOOLEAN, mouse \in InputMouse, keys \in SUBSET AllKeys :
        FrameStart(quit, pressed, mouse, keys, InputDraws)

SpecInput == InitInput /\ [][NextInput]_vars

(***************************************************************************)
(* Properties.                                                             *)
(***************************************************************************)
InPass == {"loop", "force"}

Started(t) == wpc[t] \notin {"unborn", "start"}

(* The coordinator is between the return of its second barrier wait and    *)
(* its next first arrival.                                                 *)
BetweenRounds == cpc = "render" \/ (frame >= 1 /\ cpc \in {"top", "purge", "merge", "bar1"})

RECURSIVE SumMass(_)
SumMass(s) == IF s = <<>> THEN 0 ELSE Head(s).mass + SumMass(Tail(s))

RECURSIVE SumMomentum(_, _)
SumMomentum(s, k) ==
    IF s = <<>> THEN 0 ELSE Head(s).mass * Head(s).vel[k] + SumMomentum(Tail(s), k)

FinitePos(s) == ~s.nan[1] /\ ~s.nan[2]

(* C1: the size of the collection changes only while no worker is between *)
(* two barrier returns (in its force/update loop).                         *)
C1_FrozenWhileWorkersRun ==
    [][Len(stars') # Len(stars) => \A t \in Workers : wpc[t] \notin InPass]_vars

(* C2: from the release that ends a round until the coordinator's next     *)
(* first arrival every worker is blocked at the barrier.                   *)
C2_WorkersBlockedBetweenRounds ==
    BetweenRounds => \A t \in Workers : wpc[t] = "wait"

(* C3: when the coordinator's second barrier wait has returned, every      *)
(* worker has finished the pass of the round the first arrival opened.     *)
C3_RoundFinishedAtReturn ==
    cpc = "render" => \A t \in Workers : ~busy[t] /\ passes[t] >= 1

C3_Witness ==
    /\ cpc = "render"
    /\ Len(stars) >= 2
    /\ \A t \in Workers : passes[t] >= 1

(* C4: no two workers are at work (addForce, update) on the same star      *)
(* index at the same time.                                                 *)
C4_OneWorkerPerStar ==
    \A t, u \in Workers :
        (t # u /\ wpc[t] = "force" /\ wpc[u] = "force") => wi[t] # wi[u]

(* C5: once every worker has read its id, every index below the largest    *)
(* collection size is owned by some worker.                                *)
C5_EveryIndexOwned ==
    (\A t \in Workers : Started(t)) =>
        \A i \in 0 .. (MaxStars - 1) : \E t \in Workers : Owns(num[t], i)

(* C6: between two consecutive renders every worker makes one pass over    *)
(* the indices it owns: it calls update(DT) exactly once for each of them. *)
OwnedBy(t) == {i \in 0 .. (Len(stars) - 1) : Owns(num[t], i)}

C6_OnePassPerFrame ==
    (cpc = "render" /\ frame >= 1) =>
        \A t \in Workers : updates[t] = Cardinality(OwnedBy(t))

(* C7: when the merge loops have finished, no two stars of the collection  *)
(* overlap.                                                                *)
C7_NoOverlapAfterMerge ==
    cpc = "bar1" =>
        NoOverlap(stars)

(* C8: throughout the merge loops and when they have finished, the total   *)
(* mass is what it was before the pass, the total momentum is what it was  *)
(* before up to the rounding of the velocity's division (below one unit of *)
(* velocity per merge), and the collection has shrunk by the number of     *)
(* merges done.                                                            *)
C8_MergeConserves ==
    cpc \in {"merge", "bar1"} =>
        /\ SumMass(stars) = SumMass(snap)
        /\ \A k \in 1 .. 2 :
               Abs(SumMomentum(stars, k) - SumMomentum(snap, k)) < nmerge * SumMass(snap) + 1
        /\ Len(stars) = Len(snap) - nmerge

C8_Witness ==
    /\ cpc = "bar1"
    /\ nmerge >= 2
    /\ SumMomentum(snap, 1) # 0

C10_ForcesReadSnapshot ==
    \A t \in Workers :
        (busy[t] /\ wpc[t] = "force" /\ wj[t] < Len(stars) /\ wj[t] # wi[t]) =>
            /\ At(stars, wj[t]).pos = At(snap, wj[t]).pos
            /\ At(stars, wj[t]).vel = At(snap, wj[t]).vel
            /\ At(stars, wj[t]).nan = At(snap, wj[t]).nan
            /\ At(stars, wj[t]).mass = At(snap, wj[t]).mass

InputStep == cpc = "top" /\ cpc' = "purge"

(* The stars the step appended, and the centre the galaxy was asked at. *)
NewStars == {k \in 1 .. Len(stars') : k > Len(stars)}

SpawnCentre == <<input'.mouse[1] - x_offset, input'.mouse[2] - y_offset>>

(* C12: the keys of a frame move x_offset and y_offset by one per pressed  *)
(* key (UP y+1, DOWN y-1, RIGHT x-1, LEFT x+1) and leave every star that   *)
(* was in the collection as it was; a galaxy asked at mouse (mx, my) is    *)
(* laid around (mx - x_offset, my - y_offset).                             *)
C12_KeysMoveOnlyTheView ==
    [][InputStep =>
        /\ x_offset' - x_offset = Cardinality(input'.keys \cap {"LEFT"})
                                     - Cardinality(input'.keys \cap {"RIGHT"})
        /\ y_offset' - y_offset = Cardinality(input'.keys \cap {"UP"})
                                     - Cardinality(input'.keys \cap {"DOWN"})
        /\ SubSeq(stars', 1, Len(stars)) = stars
        /\ (~input'.called => stars' = stars)
        /\ \A k \in NewStars :
               \E r \in InputRadii : Mag2(VSub(stars'[k].pos, SpawnCentre)) = r * r]_vars

(* DOWN and RIGHT held from offset (1, 1), a click at (2, 3): the new star *)
(* lies 4 to the right of (1, 2).                                          *)
C12_Witness ==
    /\ cpc = "purge"
    /\ input.called
    /\ input.keys = {"DOWN", "RIGHT"}
    /\ input.mouse = <<2, 3>>
    /\ x_offset = 0
    /\ y_offset = 0
    /\ Len(stars) = 2
    /\ stars[2].pos = <<5, 2>>

(* The sense in which a star turns about a centre: the sign of the cross   *)
(* product of its offset from the centre and its velocity.                 *)
Turn(s, centre) ==
    LET d == VSub(s.pos, centre) IN d[1] * s.vel[2] - d[2] * s.vel[1]

(* C13: a call of addRandomGalaxy appends between SpawnBase and            *)
(* SpawnBase + SpawnMod - 1 stars (500 and 999 in the source) after the    *)
(* stars already there, which keep their index and their state, and all    *)
(* the stars of the call turn the same way about the centre.               *)
C13_GalaxyAppended ==
    [][(InputStep /\ input'.called) =>
        /\ Len(stars') - Len(stars) >= SpawnBase
        /\ Len(stars') - Len(stars) <= SpawnBase + SpawnMod - 1
        /\ SubSeq(stars', 1, Len(stars)) = stars
        /\ \E dir \in {-1, 1} :
               \A k \in NewStars : Turn(stars'[k], SpawnCentre) * dir >= 0]_vars

(* Two stars appended behind an old one, on opposite sides of the centre. *)
C13_Witness ==
    /\ cpc = "purge"
    /\ input.called
    /\ Len(stars) = 3
    /\ stars[1] = snap[1]
    /\ stars[2].pos # stars[3].pos
    /\ stars[2].vel # Zero2
    /\ stars[3].vel # Zero2

(* C14: every star of the collection has a finite mass above 0; the        *)
(* spawner never builds one from distance 0.                               *)
C14_SpawnedMassFinite ==
    \A k \in 1 .. Len(stars) : ~stars[k].minf /\ stars[k].mass > 0

(* A step of the merge loop that merged stars[i] and stars[j]. *)
MergedStep == cpc = "merge" /\ Len(stars') = Len(stars) - 1

(* C15: in the inner merge loop of index i, every entry between i and j    *)
(* has been compared against stars[i] since it was last shifted, so when   *)
(* the loop ends no entry after i was skipped; a merge leaves j where it   *)
(* is, and the entry the erase shifted into position j is the one compared *)
(* next.                                                                   *)
C15_NoEntrySkipped ==
    /\ [](cpc = "merge" /\ ci < Len(stars) =>
            seen = {k \in (ci + 1) .. (Len(stars) - 1) : k < cj})
    /\ [][MergedStep =>
            /\ cj' = cj
            /\ (cj < Len(stars') => At(stars', cj) = At(stars, cj + 1))]_vars

(* The first two of three stars merged, and the third, shifted to index 1, *)
(* then compared against the merged star.                                  *)
C15_Witness ==
    /\ cpc = "merge"
    /\ ci = 0
    /\ nmerge = 1
    /\ Len(snap) = 3
    /\ Len(stars) = 2
    /\ At(stars, 1) = At(snap, 2)
    /\ seen = {1}

(* C16: while the merge loops of updateStars are running, every star of    *)
(* the collection has a finite position.                                   *)
C16_MergeSeesFinitePositions ==
    cpc = "merge" => \A k \in 1 .. Len(stars) : FinitePos(stars[k])

(* The indices below n other than i, in ascending order. *)
OthersBelow(i, n) ==
    [k \in 1 .. Cardinality({j \in 0 .. (n - 1) : j # i}) |-> IF k - 1 < i THEN k - 1 ELSE k]

(* Worker t adds the force of stars[j] to its star stars[i] in this step. *)
AddsForce(t) ==
    /\ wpc[t] = "force"
    /\ wj'[t] = wj[t] + 1
    /\ wj[t] # wi[t]
    /\ wi[t] < Len(stars)

(* Worker t calls update(DT) on its star stars[i] in this step. *)
Updates(t) ==
    /\ wpc[t] = "force"
    /\ wpc'[t] = "loop"
    /\ wi[t] < Len(stars)

(* The contribution is the inverse-square attraction of b on a: along each *)
(* axis it points from a toward b and is at most G*ma*mb/dist^2, and for   *)
(* two stars on one axis it is exactly that.                               *)
IsAttraction(d, a, b) ==
    LET diff == VSub(b.pos, a.pos)
        f == TDiv(G * a.mass * b.mass, Magnitude(diff) * Magnitude(diff))
    IN  /\ \A k \in 1 .. 2 : d[k] * diff[k] >= 0 /\ Abs(d[k]) <= f
        /\ (diff[1] = 0 \/ diff[2] = 0) => Abs(d[1]) + Abs(d[2]) = f

InUpdateStars == cpc \in {"merge", "bar1", "wait1", "bar2", "wait2"}

C20_MergeTouchesOnlyIAndJ ==
    [][MergedStep =>
        /\ ci < cj
        /\ At(stars', ci).mass = At(stars, ci).mass + At(stars, cj).mass
        /\ At(stars', ci).pos \in {At(stars, ci).pos, At(stars, cj).pos}
        /\ \A k \in 0 .. (cj - 1) : k # ci => At(stars', k) = At(stars, k)
        /\ \A k \in cj .. (Len(stars') - 1) : At(stars', k) = At(stars, k + 1)]_vars

(* Three stars, the first and the second merged: the third has moved from  *)
(* index 2 to index 1.                                                     *)
C20_Witness ==
    /\ cpc = "merge"
    /\ nmerge = 1
    /\ ci = 0
    /\ cj = 1
    /\ Len(snap) = 3
    /\ Len(stars) = 2
    /\ At(stars, 1) = At(snap, 2)
    /\ At(stars, 0).mass = At(snap, 0).mass + At(snap, 1).mass

====
